---------------------------- MODULE Spec2Model ----------------------------
(***************************************************************************)
(* A model of the note-push webhook handler                                *)
(* (src/src/functions/note-push.js): signature gate, JSON parsing, event   *)
(* extraction, and the fetch / write retry loop against the remote         *)
(* document store.                                                         *)
(*                                                                         *)
(* Strings are sequences of tokens.  A token is either one character       *)
(* ("4", "(", LF, CR, " ", ...) or an opaque run of characters that holds  *)
(* none of the characters the code searches for or replaces.               *)
(***************************************************************************)
EXTENDS Integers, Sequences, FiniteSets, TLC

VARIABLES
    env,        \* process.env: the configuration the handler reads
    clock,      \* the system clock, in minutes
    store,      \* the remote repository: path -> document
    req,        \* each request's inputs: method, raw body, signature header
    pc,         \* each handler invocation's position (its pending await)
    loc,        \* each handler invocation's local variables
    resp,       \* what each invocation gave its caller: responses, exceptions
    calls,      \* history: the store operations each invocation issued
    waits,      \* history: the backoff waits each invocation made (ms)
    faults,     \* the number of failures the store and network had so far
    commits     \* the number of commits other writers made to the store

vars == <<env, clock, store, req, pc, loc, resp, calls, waits, faults, commits>>

----------------------------------------------------------------------------
(* Bounds of the model *)

MaxClock == 2           \* the clock runs over 0..MaxClock
MinutesPerDay == 2      \* minutes in a (scaled-down) Tokyo calendar day
MaxFaults == 3          \* failures of the store and network, in total
MaxCommits == 1         \* commits by other writers, in total
MaxEvents == 3          \* events in a generated webhook payload
NumWriters == 3         \* requests that run concurrently on one document

\* The invocation under study.  Whatever else writes to the repository while
\* it runs (another invocation of this function, a push by the owner of the
\* notes) is the action OtherWriter.
Reqs == {1}

(* Program constants *)

\* a loop that allows one attempt more
MaxAttemptsFour == 3 + 1
MaxAttempts == 3        \* for (let attempt = 1; attempt <= 3; attempt++)
BackoffMs == 150        \* setTimeout(r, 150 * attempt)

LF == "\n"
CR == "\r"
TAB == "\t"

----------------------------------------------------------------------------
(* Strings *)

IsPrefixAt(s, i, needle) ==
    /\ i + Len(needle) - 1 <= Len(s)
    /\ \A k \in 1..Len(needle) : s[i + k - 1] = needle[k]

\* String.prototype.includes
Includes(s, needle) == \E i \in 1..(Len(s) + 1) : IsPrefixAt(s, i, needle)

\* String.prototype.endsWith
EndsWith(s, suffix) ==
    /\ Len(suffix) <= Len(s)
    /\ SubSeq(s, Len(s) - Len(suffix) + 1, Len(s)) = suffix

RECURSIVE ReplaceAll(_, _, _)
\* String.prototype.replaceAll: left to right, non-overlapping
ReplaceAll(s, needle, by) ==
    IF s = <<>> THEN <<>>
    ELSE IF IsPrefixAt(s, 1, needle)
         THEN by \o ReplaceAll(SubSeq(s, Len(needle) + 1, Len(s)), needle, by)
         ELSE <<Head(s)>> \o ReplaceAll(Tail(s), needle, by)

IsWhitespace(c) == c \in {" ", LF, CR, TAB}

RECURSIVE TrimStart(_)
TrimStart(s) ==
    IF s # <<>> /\ IsWhitespace(Head(s)) THEN TrimStart(Tail(s)) ELSE s

RECURSIVE TrimEnd(_)
TrimEnd(s) ==
    IF s # <<>> /\ IsWhitespace(s[Len(s)])
    THEN TrimEnd(SubSeq(s, 1, Len(s) - 1)) ELSE s

\* String.prototype.trim
Trim(s) == TrimEnd(TrimStart(s))

RECURSIVE Join(_, _)
\* Array.prototype.join
Join(ss, sep) ==
    IF ss = <<>> THEN <<>>
    ELSE IF Len(ss) = 1 THEN ss[1]
    ELSE ss[1] \o sep \o Join(Tail(ss), sep)

RECURSIVE Digits(_)
\* the decimal rendering of a natural number, one token per digit
Digits(n) ==
    IF n < 10 THEN <<ToString(n)>>
    ELSE Digits(n \div 10) \o <<ToString(n % 10)>>

\* a two-digit, zero-padded rendering ('2-digit')
TwoDigits(n) == IF n < 10 THEN <<"0">> \o Digits(n) ELSE Digits(n)


----------------------------------------------------------------------------
(* Configuration and time *)

NoValue == <<>>         \* an unset (or empty) environment variable

\* process.env[name] read without the check
requireEnvUnchecked(name) ==
    [threw |-> FALSE, value |-> env[name], message |-> <<>>]

\* function requireEnv(name): the value, or a thrown 'Missing env: <name>'
requireEnv(name) ==
    IF env[name] = NoValue
    THEN [threw |-> TRUE, value |-> NoValue,
          message |-> <<"Missing env: ", name>>]
    ELSE [threw |-> FALSE, value |-> env[name], message |-> <<>>]

\* process.env.NOTE_FILE_PATH_TEMPLATE || 'daily/{date}.md'
DefaultTemplate == <<"daily/", "{date}", ".md">>
Template ==
    IF env["NOTE_FILE_PATH_TEMPLATE"] = NoValue
    THEN DefaultTemplate ELSE env["NOTE_FILE_PATH_TEMPLATE"]

\* function formatTokyoParts(date): the Tokyo calendar and clock parts of
\* the instant `now` (minutes since midnight of the first day of the model)
formatTokyoParts(now) ==
    LET yyyy == <<"2", "0", "2", "6">>
        mm == <<"0", "1">>
        dd == TwoDigits(now \div MinutesPerDay + 1)
        HH == <<"0", "0">>
        MM == TwoDigits(now % MinutesPerDay)
    IN  [yyyy |-> yyyy, yy |-> SubSeq(yyyy, Len(yyyy) - 1, Len(yyyy)),
         mm |-> mm, dd |-> dd, HH |-> HH, MM |-> MM, SS |-> <<"0", "0">>,
         date |-> yyyy \o <<"-">> \o mm \o <<"-">> \o dd]

\* function buildNotePath(template, tokyoParts)
buildNotePath(template, tokyoParts) ==
    ReplaceAll(ReplaceAll(ReplaceAll(ReplaceAll(ReplaceAll(template,
        <<"{yyyy}">>, tokyoParts.yyyy),
        <<"{yy}">>, tokyoParts.yy),
        <<"{mm}">>, tokyoParts.mm),
        <<"{dd}">>, tokyoParts.dd),
        <<"{date}">>, tokyoParts.date)

----------------------------------------------------------------------------
(* The signature gate *)

NoHeader == [present |-> FALSE, value |-> <<>>]     \* headers.get() = null
Header(v) == [present |-> TRUE, value |-> v]

\* crypto.createHmac('sha256', secret).update(rawBody).digest('base64'):
\* a digest of fixed length that is injective in the body and the secret
HmacBase64(rawBody, secret) == <<"mac">> \o secret \o <<rawBody.id>>

\* crypto.timingSafeEqual(a, b): throws when the lengths differ
timingSafeEqual(a, b) ==
    IF Len(a) # Len(b) THEN "throw" ELSE IF a = b THEN "true" ELSE "false"

\* the verifier without its length check before timingSafeEqual
verifyNoLengthCheck(rawBody, signatureHeader, channelSecret) ==
    IF ~signatureHeader.present \/ signatureHeader.value = <<>> THEN "false"
    ELSE timingSafeEqual(HmacBase64(rawBody, channelSecret),
                         signatureHeader.value)

\* function verifyLineSignature(rawBody, signatureHeader, channelSecret):
\* "true", "false", or "throw"
verifyLineSignature(rawBody, signatureHeader, channelSecret) ==
    IF ~signatureHeader.present \/ signatureHeader.value = <<>> THEN "false"
    ELSE LET expected == HmacBase64(rawBody, channelSecret)
             a == expected
             b == signatureHeader.value
         IN  IF Len(a) # Len(b) THEN "false" ELSE timingSafeEqual(a, b)

----------------------------------------------------------------------------
(* Parsing and event extraction *)

\* a parser whose failure is swallowed: the payload is taken to be null
JsonParseLenient(rawBody) ==
    IF rawBody.json THEN [threw |-> FALSE, payload |-> rawBody.payload]
    ELSE [threw |-> FALSE, payload |-> [kind |-> "null"]]

\* JSON.parse(rawBody): the payload, or a thrown SyntaxError
JsonParse(rawBody) ==
    IF rawBody.json THEN [threw |-> FALSE, payload |-> rawBody.payload]
    ELSE [threw |-> TRUE, payload |-> [kind |-> "null"]]

\* Array.isArray(payload?.events) ? payload.events : []
EventsOf(payload) ==
    IF /\ payload.kind = "object"
       /\ "events" \in DOMAIN payload
       /\ payload.events.isArray
    THEN payload.events.items ELSE <<>>

\* a filter that looks at the type of the event only
IsMessageEvent(e) ==
    /\ "type" \in DOMAIN e
    /\ e.type = "message"
    /\ "message" \in DOMAIN e

\* e?.type === 'message' && e?.message?.type === 'text'
IsTextMessageEvent(e) ==
    /\ "type" \in DOMAIN e
    /\ e.type = "message"
    /\ "message" \in DOMAIN e
    /\ "type" \in DOMAIN e.message
    /\ e.message.type = "text"

\* String(e.message.text ?? '')
TextOf(e) == IF "text" \in DOMAIN e.message THEN e.message.text ELSE <<>>

\* the emptiness test without trim()
HasTextUntrimmed(m) == Len(m.text) > 0

\* m.text.trim().length > 0
HasVisibleText(m) == Len(Trim(m.text)) > 0

\* events.filter(...).map(...).filter((m) => m.text.trim().length > 0)
TextMessages(payload) ==
    LET kept == SelectSeq(EventsOf(payload), IsTextMessageEvent)
        mapped == [i \in 1..Len(kept) |-> [text |-> TextOf(kept[i])]]
    IN  SelectSeq(mapped, HasVisibleText)

\* a line whose lone carriage returns are left in place
LineCrlfOnly(t, m) ==
    <<"-", " ">> \o t.HH \o <<":">> \o t.MM \o <<" ">>
        \o ReplaceAll(m.text, <<CR, LF>>, <<LF>>)

\* `- ${time} ${m.text.replaceAll('\r\n', '\n').replaceAll('\r', '\n')}`
Line(t, m) ==
    <<"-", " ">> \o t.HH \o <<":">> \o t.MM \o <<" ">>
        \o ReplaceAll(ReplaceAll(m.text, <<CR, LF>>, <<LF>>), <<CR>>, <<LF>>)

\* const entry = `${lines.join('\n')}\n`
Entry(t, textMessages) ==
    Join([i \in 1..Len(textMessages) |-> Line(t, textMessages[i])], <<LF>>)
        \o <<LF>>

\* const commitMsg = `note: append from LINE (${t.date})`
CommitMsg(t) == <<"note: append from LINE ", "(">> \o t.date \o <<")">>

----------------------------------------------------------------------------
(* The remote document store and its client *)

NoSha == 0              \* `undefined`: no version token

\* a path that holds no document
Missing == [exists |-> FALSE, sha |-> NoSha, content |-> <<>>]

\* Buffer.from(content, 'utf8').toString('base64')
Base64Encode(s) == <<"base64">> \o s
\* Buffer.from(json.content || '', 'base64').toString('utf8')
Base64Decode(b) == IF b # <<>> /\ Head(b) = "base64" THEN Tail(b) ELSE <<>>

\* new Error(`GitHub ${method} failed (${res.status}): ${text}`)
HttpError(method, status, text) ==
    <<"GitHub ", method, " failed ", "(">> \o Digits(status)
        \o <<")", ":", " ">> \o text

\* getGitHubFile on a 404 / on a 200 response
GetResult(doc) ==
    IF ~doc.exists THEN [exists |-> FALSE]
    ELSE [exists |-> TRUE, sha |-> doc.sha,
          content |-> Base64Decode(Base64Encode(doc.content))]

\* a request body that always holds the sha key
PutBodyAlwaysSha(content, sha, message) ==
    [message |-> message, content |-> Base64Encode(content),
     branch |-> "main", sha |-> sha]

\* the request body putGitHubFile sends: ...(sha ? { sha } : {})
PutBody(content, sha, message) ==
    IF sha # NoSha
    THEN [message |-> message, content |-> Base64Encode(content),
          branch |-> "main", sha |-> sha]
    ELSE [message |-> message, content |-> Base64Encode(content),
          branch |-> "main"]

\* the store's precondition on a write: the version token of an existing
\* document must be supplied and current; a new document takes none
StoreAccepts(doc, body) ==
    IF doc.exists THEN "sha" \in DOMAIN body /\ body.sha = doc.sha
    ELSE "sha" \notin DOMAIN body

\* the status of a write the precondition rejects: 409 for a stale token,
\* 422 when the token of an existing document was not supplied
RejectStatus(doc, body) ==
    IF doc.exists /\ "sha" \notin DOMAIN body THEN 422 ELSE 409

\* the document after an accepted write: new content, new version token
Written(doc, body) ==
    [exists |-> TRUE, sha |-> doc.sha + 1,
     content |-> Base64Decode(body.content)]

\* s.trimEnd() + '\n': the trailing whitespace collapsed into one newline
TrimEndThenNewline(s) == TrimEnd(s) \o <<LF>>

\* a newline appended whether or not the content ends with one
AlwaysAppendNewline(s) == s \o <<LF>>

\* function ensureEndsWithNewline(s)
ensureEndsWithNewline(s) ==
    IF s = <<>> THEN <<LF>>
    ELSE IF EndsWith(s, <<LF>>) THEN s ELSE s \o <<LF>>

\* content built as for a new document, whatever the fetch returned
NextContentFresh(t, entry, cur) ==
    <<"#", " ">> \o t.date \o <<LF, LF>> \o entry

\* nextContent, from the fetched document
NextContent(t, entry, cur) ==
    IF ~cur.exists THEN <<"#", " ">> \o t.date \o <<LF, LF>> \o entry
    ELSE ensureEndsWithNewline(cur.content) \o entry

\* sha: cur.exists ? cur.sha : undefined
ShaArg(cur) == IF cur.exists THEN cur.sha ELSE NoSha

\* String(e?.message || e)
ErrText(e) == IF e.message # <<>> THEN e.message ELSE <<"Error">>

\* const isConflict = msg.includes('(409)') || msg.includes('409')
isConflict(e) ==
    LET msg == ErrText(e)
    IN  Includes(msg, <<"(", "4", "0", "9", ")">>)
            \/ Includes(msg, <<"4", "0", "9">>)

----------------------------------------------------------------------------
(* The inputs *)

Secret == <<"s1">>
EnvNames == {"LINE_CHANNEL_SECRET", "GITHUB_TOKEN", "NOTE_FILE_PATH_TEMPLATE"}

TextEvent(text) ==
    [type |-> "message", message |-> [type |-> "text", text |-> text]]
TextEventNoText == [type |-> "message", message |-> [type |-> "text"]]
ImageEvent == [type |-> "message", message |-> [type |-> "image"]]
FollowEvent == [type |-> "follow"]

JsonBody(id, payload) == [id |-> id, json |-> TRUE, payload |-> payload]
EventsBody(id, items) ==
    JsonBody(id, [kind |-> "object",
                  events |-> [isArray |-> TRUE, items |-> items]])

\* raw request bodies: malformed JSON, JSON without an events array, JSON
\* whose events hold no qualifying text, and JSON with qualifying texts
Bodies ==
    { [id |-> "malformed", json |-> FALSE],
      JsonBody("null", [kind |-> "null"]),
      JsonBody("noevents", [kind |-> "object"]),
      JsonBody("notarray", [kind |-> "object", events |-> [isArray |-> FALSE]]),
      EventsBody("nonmessage", <<FollowEvent>>),
      EventsBody("nontext", <<ImageEvent, FollowEvent>>),
      EventsBody("blank", <<TextEvent(<<" ", LF>>), TextEventNoText>>),
      EventsBody("one", <<TextEvent(<<"a">>)>>),
      EventsBody("mixed", <<ImageEvent, TextEvent(<<"b", CR, LF, "c">>),
                            TextEvent(<<" ">>), TextEvent(<<"d", LF>>)>>) }

\* signature headers for a body: absent, empty, the correct signature, the
\* signature of another body or under another secret (same length), and
\* values shorter and longer than a signature
Headers(b) ==
    { NoHeader, Header(<<>>), Header(HmacBase64(b, Secret)),
      Header(HmacBase64([id |-> "other"], Secret)),
      Header(HmacBase64(b, <<"s2">>)),
      Header(<<"mac">>),
      Header(HmacBase64(b, Secret) \o <<"=">>) }

\* what a document holds before the first request
InitContents == { <<>>, <<"x">>, <<"x", LF>>, <<"x", LF, LF>> }

\* non-success statuses and response texts of the store, and the messages
\* of errors thrown by the network layer
FailStatuses == {401, 409, 500}
FailTexts == { <<"Server Error">>, <<"request ", "4", "0", "9", "6">> }
NetMessages == { <<"fetch failed">> }

\* the required settings are set
ConfigSet ==
    env["LINE_CHANNEL_SECRET"] # NoValue /\ env["GITHUB_TOKEN"] # NoValue

Paths == { buildNotePath(Template, formatTokyoParts(c)) : c \in 0..MaxClock }

----------------------------------------------------------------------------
(* The handler *)

Response(status, body) == [kind |-> "response", status |-> status, body |-> body]
Exception(message) ==
    [kind |-> "exception", status |-> 0, body |-> [message |-> message]]

NoErr == [message |-> <<>>, defined |-> FALSE]      \* let lastErr;
Thrown(message) == [message |-> message, defined |-> TRUE]
NoLoc ==
    [textMessages |-> <<>>, t |-> formatTokyoParts(0), path |-> <<>>,
     entry |-> <<>>, commitMsg |-> <<>>, attempt |-> 0,
     cur |-> [exists |-> FALSE], nextContent |-> <<>>, lastErr |-> NoErr]

\* lines 119-165: from the raw body to the first attempt.  The result is a
\* thrown exception, a response, or the locals the retry loop starts with.
Prepare(r, now) ==
    LET rawBody == req[r].body
        channelSecret == requireEnv("LINE_CHANNEL_SECRET")
        verdict == verifyLineSignature(rawBody, req[r].header,
                                       channelSecret.value)
        parsed == JsonParse(rawBody)
        textMessages == TextMessages(parsed.payload)
        ghToken == requireEnv("GITHUB_TOKEN")
        t == formatTokyoParts(now)
    IN  IF channelSecret.threw
          THEN [kind |-> "done", result |-> Exception(channelSecret.message)]
        ELSE IF verdict = "throw"
          THEN [kind |-> "done", result |-> Exception(<<"ERR_CRYPTO_TIMING_SAFE_EQUAL_LENGTH">>)]
        ELSE IF verdict = "false"
          THEN [kind |-> "done",
                result |-> Response(401, [ok |-> FALSE, error |-> "Invalid signature"])]
        ELSE IF parsed.threw
          THEN [kind |-> "done",
                result |-> Response(400, [ok |-> FALSE, error |-> "Invalid JSON"])]
        ELSE IF Len(textMessages) = 0
          THEN [kind |-> "done",
                result |-> Response(200, [ok |-> TRUE, appended |-> 0])]
        ELSE IF ghToken.threw
          THEN [kind |-> "done", result |-> Exception(ghToken.message)]
        ELSE [kind |-> "loop",
              loc |-> [NoLoc EXCEPT !.textMessages = textMessages,
                                    !.t = t,
                                    !.path = buildNotePath(Template, t),
                                    !.entry = Entry(t, textMessages),
                                    !.commitMsg = CommitMsg(t),
                                    !.attempt = 1]]

\* a success answered with status 201
SuccessCreated(l) ==
    Response(201, [ok |-> TRUE, appended |-> Len(l.textMessages),
                   path |-> l.path])

\* line 189
Success(l) ==
    Response(200, [ok |-> TRUE, appended |-> Len(l.textMessages),
                   path |-> l.path])

\* the last error thrown on to the caller instead of being reported
FailureRethrown(l, lastErr) == Exception(ErrText(lastErr))

\* lines 200-203
Failure(l, lastErr) ==
    Response(200, [ok |-> FALSE, error |-> "append_failed",
                   detail |-> ErrText(lastErr), path |-> l.path])

\* if (!isConflict || attempt === 3) break;
Breaks(attempt, e) == ~isConflict(e) \/ attempt = MaxAttempts

\* a retry that writes again without fetching again
RetryPcSkipsFetch == "put"

\* where the loop resumes after the backoff wait
RetryPc == "fetch"


\* the invocations of the handler
Invocations == DOMAIN pc

\* a store operation as issued and answered.  GET: the document returned
\* (hasSha: it exists); PUT: the version token and content sent.  status is 0
\* and error the message when the call threw without a response; error is
\* empty when the call succeeded.
Call(op, attempt, path, hasSha, sha, content, status, error) ==
    [op |-> op, attempt |-> attempt, path |-> path, hasSha |-> hasSha,
     sha |-> sha, content |-> content, status |-> status, error |-> error]

Return(r, result) ==
    /\ resp' = [resp EXCEPT ![r] = Append(@, result)]
    /\ pc' = [pc EXCEPT ![r] = "done"]

\* a wait of the same length after every attempt
BackoffDelayFlat(attempt) == BackoffMs
\* 150 * attempt
BackoffDelay(attempt) == BackoffMs * attempt

\* lines 190-197 and 200-203: the catch block, and what follows the loop
Catch(r, message) ==
    LET l == loc[r]
        e == Thrown(message)
    IN  /\ loc' = [loc EXCEPT ![r].lastErr = e]
        /\ IF Breaks(l.attempt, e)
           THEN /\ Return(r, Failure(l, e))
                /\ UNCHANGED waits
           ELSE /\ pc' = [pc EXCEPT ![r] = "backoff"]
                /\ waits' = [waits EXCEPT ![r] = Append(@, BackoffDelay(l.attempt))]
                /\ UNCHANGED resp

\* a comparison with the method name in the wrong case
IsHealthCheckLowercase(request) == request.method = "get"
\* if (request.method === 'GET')
IsHealthCheck(request) == request.method = "GET"

\* a request arrives and the handler is invoked; GET is answered at once,
\* POST awaits the raw body (lines 112-119)
InvokeWith(r, methods, bodies) ==
    /\ pc[r] = "idle"
    /\ \E method \in methods, b \in bodies :
         \E h \in Headers(b) :
            /\ req' = [req EXCEPT ![r] = [method |-> method, body |-> b, header |-> h]]
            /\ IF IsHealthCheck([method |-> method])
               THEN Return(r, Response(200, [ok |-> TRUE, name |-> "note-push"]))
               ELSE /\ pc' = [pc EXCEPT ![r] = "body"]
                    /\ UNCHANGED resp
    /\ UNCHANGED <<env, clock, store, loc, calls, waits, faults, commits>>

Invoke(r) == InvokeWith(r, {"GET", "POST"}, Bodies)

\* lines 119-168: signature gate, parsing, extraction, the block
Handle(r) ==
    /\ pc[r] = "body"
    /\ LET p == Prepare(r, clock)
       IN  IF p.kind = "done"
           THEN /\ Return(r, p.result)
                /\ UNCHANGED loc
           ELSE /\ loc' = [loc EXCEPT ![r] = p.loc]
                /\ pc' = [pc EXCEPT ![r] = "fetch"]
                /\ UNCHANGED resp
    /\ UNCHANGED <<env, clock, store, req, calls, waits, faults, commits>>

\* lines 171-177: the fetch answers 404 or 200; nextContent is built
FetchDone(r) ==
    /\ pc[r] = "fetch"
    /\ LET l == loc[r]
           cur == GetResult(store[l.path])
       IN  /\ loc' = [loc EXCEPT ![r].cur = cur,
                                 ![r].nextContent = NextContent(l.t, l.entry, cur)]
           /\ calls' = [calls EXCEPT ![r] = Append(@,
                  Call("GET", l.attempt, l.path, cur.exists, ShaArg(cur),
                       IF cur.exists THEN cur.content ELSE <<>>,
                       IF cur.exists THEN 200 ELSE 404, <<>>))]
    /\ pc' = [pc EXCEPT ![r] = "put"]
    /\ UNCHANGED <<env, clock, store, req, resp, waits, faults, commits>>

\* lines 74-77: the fetch answers another status
FetchFailed(r) ==
    /\ pc[r] = "fetch"
    /\ faults < MaxFaults
    /\ \E status \in FailStatuses, text \in FailTexts :
          /\ calls' = [calls EXCEPT ![r] = Append(@,
                 Call("GET", loc[r].attempt, loc[r].path, FALSE, NoSha, <<>>,
                      status, HttpError("GET", status, text)))]
          /\ Catch(r, HttpError("GET", status, text))
    /\ faults' = faults + 1
    /\ UNCHANGED <<env, clock, store, req, commits>>

\* lines 57, 78: fetch() rejects, or the response cannot be decoded
FetchThrew(r) ==
    /\ pc[r] = "fetch"
    /\ faults < MaxFaults
    /\ \E message \in NetMessages :
          /\ calls' = [calls EXCEPT ![r] = Append(@,
                 Call("GET", loc[r].attempt, loc[r].path, FALSE, NoSha, <<>>,
                      0, message))]
          /\ Catch(r, message)
    /\ faults' = faults + 1
    /\ UNCHANGED <<env, clock, store, req, commits>>

\* the write request of this attempt (lines 178-187)
PutRequest(r) ==
    PutBody(loc[r].nextContent, ShaArg(loc[r].cur), loc[r].commitMsg)

PutCall(r, status, error) ==
    LET body == PutRequest(r)
    IN  Call("PUT", loc[r].attempt, loc[r].path, "sha" \in DOMAIN body,
             IF "sha" \in DOMAIN body THEN body.sha ELSE NoSha,
             Base64Decode(body.content), status, error)

\* lines 178-189: the store accepts the write; the request succeeds
PutAccepted(r) ==
    /\ pc[r] = "put"
    /\ LET l == loc[r]
           body == PutRequest(r)
       IN  /\ StoreAccepts(store[l.path], body)
           /\ store' = [store EXCEPT ![l.path] = Written(@, body)]
           /\ calls' = [calls EXCEPT ![r] = Append(@, PutCall(r, 200, <<>>))]
           /\ Return(r, Success(l))
    /\ UNCHANGED <<env, clock, req, loc, waits, faults, commits>>

\* lines 97-100: the store rejects the write on its precondition
PutRejected(r) ==
    /\ pc[r] = "put"
    /\ LET l == loc[r]
           body == PutRequest(r)
           status == RejectStatus(store[l.path], body)
       IN  /\ ~StoreAccepts(store[l.path], body)
           /\ calls' = [calls EXCEPT ![r] = Append(@,
                  PutCall(r, status, HttpError("PUT", status, <<"precondition failed">>)))]
           /\ Catch(r, HttpError("PUT", status, <<"precondition failed">>))
    /\ UNCHANGED <<env, clock, store, req, faults, commits>>

\* lines 97-100: the write answers a non-success status for another reason
PutFailed(r) ==
    /\ pc[r] = "put"
    /\ faults < MaxFaults
    /\ \E status \in FailStatuses, text \in FailTexts :
          /\ calls' = [calls EXCEPT ![r] = Append(@,
                 PutCall(r, status, HttpError("PUT", status, text)))]
          /\ Catch(r, HttpError("PUT", status, text))
    /\ faults' = faults + 1
    /\ UNCHANGED <<env, clock, store, req, commits>>

\* line 57: fetch() rejects on the write
PutThrew(r) ==
    /\ pc[r] = "put"
    /\ faults < MaxFaults
    /\ \E message \in NetMessages :
          /\ calls' = [calls EXCEPT ![r] = Append(@, PutCall(r, 0, message))]
          /\ Catch(r, message)
    /\ faults' = faults + 1
    /\ UNCHANGED <<env, clock, store, req, commits>>

\* a loop that computes the time, the path and the block anew on each attempt
RetryLocRecomputed(l, now) ==
    LET t == formatTokyoParts(now)
    IN  [l EXCEPT !.attempt = @ + 1,
                  !.t = t,
                  !.path = buildNotePath(Template, t),
                  !.entry = Entry(t, l.textMessages),
                  !.commitMsg = CommitMsg(t)]

\* the locals as the next attempt finds them: attempt++ and nothing else
RetryLoc(l, now) == [l EXCEPT !.attempt = @ + 1]

\* line 196 and the loop header: the backoff timer fires, attempt++
Backoff(r) ==
    /\ pc[r] = "backoff"
    /\ loc' = [loc EXCEPT ![r] = RetryLoc(@, clock)]
    /\ pc' = [pc EXCEPT ![r] = RetryPc]
    /\ UNCHANGED <<env, clock, store, req, resp, calls, waits, faults, commits>>

\* another writer commits to a document: the document gets new content and
\* a new version token
OtherWriter ==
    /\ commits < MaxCommits
    /\ \E p \in Paths :
          store' = [store EXCEPT ![p] =
                      [exists |-> TRUE, sha |-> @.sha + 1,
                       content |-> @.content \o <<"y">>]]
    /\ commits' = commits + 1
    /\ UNCHANGED <<env, clock, req, pc, loc, resp, calls, waits, faults>>

\* time passes
Tick ==
    /\ clock < MaxClock
    /\ clock' = clock + 1
    /\ UNCHANGED <<env, store, req, pc, loc, resp, calls, waits, faults, commits>>

Init ==
    /\ env \in [EnvNames -> {NoValue, Secret}]
    /\ env["NOTE_FILE_PATH_TEMPLATE"] = NoValue
    /\ clock = 0
    /\ \E first \in {Missing} \cup
                    { [exists |-> TRUE, sha |-> 1, content |-> c] : c \in InitContents } :
          store = [p \in Paths |->
                     IF p = buildNotePath(Template, formatTokyoParts(0))
                     THEN first ELSE Missing]
    /\ req = [r \in Reqs |-> [method |-> "GET", body |-> [id |-> "none"], header |-> NoHeader]]
    /\ pc = [r \in Reqs |-> "idle"]
    /\ loc = [r \in Reqs |-> NoLoc]
    /\ resp = [r \in Reqs |-> <<>>]
    /\ calls = [r \in Reqs |-> <<>>]
    /\ waits = [r \in Reqs |-> <<>>]
    /\ faults = 0
    /\ commits = 0

\* the steps of invocation r after its arrival
Step(r) ==
    \/ Handle(r)
    \/ FetchDone(r)
    \/ FetchFailed(r)
    \/ FetchThrew(r)
    \/ PutAccepted(r)
    \/ PutRejected(r)
    \/ PutFailed(r)
    \/ PutThrew(r)
    \/ Backoff(r)

Next ==
    \/ \E r \in Invocations : Invoke(r)
    \/ \E r \in Invocations : Handle(r)
    \/ \E r \in Invocations : FetchDone(r)
    \/ \E r \in Invocations : FetchFailed(r)
    \/ \E r \in Invocations : FetchThrew(r)
    \/ \E r \in Invocations : PutAccepted(r)
    \/ \E r \in Invocations : PutRejected(r)
    \/ \E r \in Invocations : PutFailed(r)
    \/ \E r \in Invocations : PutThrew(r)
    \/ \E r \in Invocations : Backoff(r)
    \/ OtherWriter
    \/ Tick

Spec == Init /\ [][Next]_vars

\* The append loop alone: the configuration is present and the request is a
\* POST with one text message, so that a correctly signed request reaches the
\* loop; the document is absent or lacks a trailing newline; the store, the
\* network and the other writer behave as in Spec.
AppendInit ==
    /\ Init
    /\ ConfigSet
    /\ \A p \in Paths : ~store[p].exists \/ store[p].content = <<"x">>

AppendNext ==
    \/ \E r \in Invocations : InvokeWith(r, {"POST"}, {EventsBody("one", <<TextEvent(<<"a">>)>>)})
    \/ \E r \in Invocations : Handle(r)
    \/ \E r \in Invocations : FetchDone(r)
    \/ \E r \in Invocations : FetchFailed(r)
    \/ \E r \in Invocations : FetchThrew(r)
    \/ \E r \in Invocations : PutAccepted(r)
    \/ \E r \in Invocations : PutRejected(r)
    \/ \E r \in Invocations : PutFailed(r)
    \/ \E r \in Invocations : PutThrew(r)
    \/ \E r \in Invocations : Backoff(r)
    \/ OtherWriter

\* Every pending await of an invocation is eventually resumed: the runtime
\* delivers each response, rejection and timer to the handler awaiting it.
AppendSpec ==
    AppendInit /\ [][AppendNext]_vars /\ \A r \in Reqs : WF_vars(Step(r))

\* Extraction and formatting alone: the configuration is present, the
\* document is absent and the store answers every call; the request is a
\* correctly signed POST whose payload is any sequence of at most MaxEvents
\* events, received at any minute of the clock.
ExtractTexts ==
    { <<"a">>, <<" ">>, <<"b", CR, LF, "c">>, <<"d", LF>>, <<CR, "e", CR>> }
CaptionedImage ==
    [type |-> "message", message |-> [type |-> "image", text |-> <<"i">>]]
PostbackWithText ==
    [type |-> "postback", message |-> [type |-> "text", text |-> <<"p">>]]
ExtractEvents ==
    {FollowEvent, TextEventNoText, CaptionedImage, PostbackWithText}
        \cup { TextEvent(text) : text \in ExtractTexts }
ExtractBodies ==
    { EventsBody("generated", items) :
        items \in UNION { [1..n -> ExtractEvents] : n \in 0..MaxEvents } }

ExtractInit ==
    /\ env = [n \in EnvNames |->
                IF n = "NOTE_FILE_PATH_TEMPLATE" THEN NoValue ELSE Secret]
    /\ clock \in 0..MaxClock
    /\ store = [p \in Paths |-> Missing]
    /\ \E b \in ExtractBodies :
          req = [r \in Reqs |->
                   [method |-> "POST", body |-> b,
                    header |-> Header(HmacBase64(b, Secret))]]
    /\ pc = [r \in Reqs |-> "body"]
    /\ loc = [r \in Reqs |-> NoLoc]
    /\ resp = [r \in Reqs |-> <<>>]
    /\ calls = [r \in Reqs |-> <<>>]
    /\ waits = [r \in Reqs |-> <<>>]
    /\ faults = 0
    /\ commits = 0

ExtractNext ==
    \/ \E r \in Invocations : Handle(r)
    \/ \E r \in Invocations : FetchDone(r)
    \/ \E r \in Invocations : PutAccepted(r)

ExtractSpec == ExtractInit /\ [][ExtractNext]_vars

\* Concurrent requests on one document: NumWriters correctly signed POSTs,
\* each with one text message of its own, have been received at the same
\* minute; the configuration is present; the store answers every fetch and
\* fails a write only on its version-token precondition.
Writers == 1..NumWriters
WriterTexts == <<"p", "q", "r", "s", "u">>
WriterBody(w) == EventsBody(WriterTexts[w], <<TextEvent(<<WriterTexts[w]>>)>>)

ConcInit ==
    /\ env = [n \in EnvNames |->
                IF n = "NOTE_FILE_PATH_TEMPLATE" THEN NoValue ELSE Secret]
    /\ clock = 0
    /\ \E first \in {Missing} \cup
                    { [exists |-> TRUE, sha |-> 1, content |-> c] : c \in InitContents } :
          store = [p \in Paths |->
                     IF p = buildNotePath(Template, formatTokyoParts(0))
                     THEN first ELSE Missing]
    /\ req = [w \in Writers |->
                [method |-> "POST", body |-> WriterBody(w),
                 header |-> Header(HmacBase64(WriterBody(w), Secret))]]
    /\ pc = [w \in Writers |-> "body"]
    /\ loc = [w \in Writers |-> NoLoc]
    /\ resp = [w \in Writers |-> <<>>]
    /\ calls = [w \in Writers |-> <<>>]
    /\ waits = [w \in Writers |-> <<>>]
    /\ faults = 0
    /\ commits = 0

ConcNext ==
    \/ \E r \in Invocations : Handle(r)
    \/ \E r \in Invocations : FetchDone(r)
    \/ \E r \in Invocations : PutAccepted(r)
    \/ \E r \in Invocations : PutRejected(r)
    \/ \E r \in Invocations : Backoff(r)

ConcSpec == ConcInit /\ [][ConcNext]_vars

----------------------------------------------------------------------------
(* What the claims speak of *)

Gets(r) == SelectSeq(calls[r], LAMBDA c : c.op = "GET")
Puts(r) == SelectSeq(calls[r], LAMBDA c : c.op = "PUT")

\* the call succeeded: a fetch answered 200 or 404, a write answered 200
Succeeded(c) == c.error = <<>>

\* the request has been answered with exactly this response
Answered(r, response) == pc[r] = "done" /\ resp[r] = <<response>>

\* the failure result of request r, with this detail
AppendFailed(r, detail) ==
    Response(200, [ok |-> FALSE, error |-> "append_failed",
                   detail |-> detail, path |-> loc[r].path])

ThreeConflicts(r) ==
    /\ Len(Puts(r)) = 3
    /\ \A i \in 1..3 : Puts(r)[i].status = 409

\* C1: a request makes at most 3 attempts (at most 3 fetches, at most 3
\* writes, never an attempt numbered above 3); when the write was rejected
\* with status 409 on all 3 attempts, the request has ended with the failure
\* result ok:false, error 'append_failed', whose detail is the message of
\* the third error.
C1_AtMostThreeAttempts ==
    \A r \in Invocations :
        /\ Len(Gets(r)) <= 3
        /\ Len(Puts(r)) <= 3
        /\ \A i \in DOMAIN calls[r] : calls[r][i].attempt \in 1..3
        /\ ThreeConflicts(r) =>
              Answered(r, AppendFailed(r, Puts(r)[3].error))

C1_Witness == \E r \in Invocations : ThreeConflicts(r) /\ pc[r] = "done"

\* C2: every write is directly preceded by a successful fetch of the same
\* attempt, and carries the version token of that fetch and the content
\* built from what that fetch returned; a later write belongs to a later
\* attempt, so between two writes the document is fetched again.
C2_WriteUsesFetchOfSameAttempt ==
    \A r \in Invocations : \A i \in DOMAIN calls[r] :
        calls[r][i].op = "PUT" =>
            /\ i > 1
            /\ LET put == calls[r][i]
                   get == calls[r][i - 1]
               IN  /\ get.op = "GET"
                   /\ Succeeded(get)
                   /\ get.attempt = put.attempt
                   /\ get.path = put.path
                   /\ put.hasSha = get.hasSha
                   /\ put.sha = get.sha
                   /\ put.content =
                        NextContent(loc[r].t, loc[r].entry,
                                    [exists |-> get.hasSha, content |-> get.content])
            /\ \A j \in 1..(i - 1) :
                  calls[r][j].op = "PUT" => calls[r][j].attempt < calls[r][i].attempt

\* a write rejected as stale, then a second attempt whose fetch returned a
\* newer version token, which the second write carried
C2_Witness ==
    \E r \in Invocations :
        /\ Len(Puts(r)) >= 2
        /\ Puts(r)[1].status = 409
        /\ Puts(r)[2].hasSha
        /\ Puts(r)[2].sha # Puts(r)[1].sha
        /\ Puts(r)[2].content # Puts(r)[1].content

\* the store operation failed with something other than the conflict status
FailedNotConflict(c) == ~Succeeded(c) /\ c.status # 409

\* C3: when a store operation fails with anything other than status 409,
\* the request has stopped: that operation is its last one, and the request
\* has ended with the failure result carrying that error's message.
C3_StopsOnNonConflict ==
    \A r \in Invocations : \A i \in DOMAIN calls[r] :
        FailedNotConflict(calls[r][i]) =>
            /\ i = Len(calls[r])
            /\ Answered(r, AppendFailed(r, calls[r][i].error))

\* the request is a POST the handler has been invoked with
Posted(r) == pc[r] # "idle" /\ req[r].method = "POST"

\* the header is the base64 HMAC-SHA256 of the raw body under the secret
ValidSignature(r) ==
    /\ env["LINE_CHANNEL_SECRET"] # NoValue
    /\ req[r].header.present
    /\ req[r].header.value = HmacBase64(req[r].body, env["LINE_CHANNEL_SECRET"])

Parseable(r) == req[r].body.json

\* a text message whose text holds a character that is not whitespace
Qualifying(e) ==
    /\ DOMAIN e = {"type", "message"}
    /\ e.type = "message"
    /\ DOMAIN e.message = {"type", "text"}
    /\ e.message.type = "text"
    /\ \E k \in DOMAIN e.message.text : e.message.text[k] \notin {" ", LF, CR, TAB}

\* the qualifying text messages of the request's payload, in number
NumQualifying(r) ==
    LET events == EventsOf(req[r].body.payload)
    IN  Cardinality({ i \in DOMAIN events : Qualifying(events[i]) })

\* a POST that reaches the append loop
Appending(r) ==
    /\ Posted(r)
    /\ ConfigSet
    /\ ValidSignature(r)
    /\ Parseable(r)
    /\ NumQualifying(r) >= 1

\* a structured result: success with count and path, or failure with error
\* and detail
Structured(result, r) ==
    /\ result.kind = "response"
    /\ result.status = 200
    /\ \/ result.body = [ok |-> TRUE, appended |-> NumQualifying(r),
                         path |-> loc[r].path]
       \/ /\ DOMAIN result.body = {"ok", "error", "detail", "path"}
          /\ result.body.ok = FALSE
          /\ result.body.error = "append_failed"
          /\ result.body.detail # <<>>

\* C4: with the configuration present, a POST with a valid signature,
\* parseable JSON and at least one qualifying text message eventually
\* completes, whatever the store answers; it gives its caller at most one
\* result, never an exception, and once complete exactly one structured
\* HTTP 200 response.
C4_AlwaysAcknowledges ==
    /\ \A r \in Reqs : Appending(r) ~> (pc[r] = "done")
    /\ [](\A r \in Invocations :
            Appending(r) =>
                /\ Len(resp[r]) <= 1
                /\ \A i \in DOMAIN resp[r] : Structured(resp[r][i], r)
                /\ pc[r] = "done" => Len(resp[r]) = 1)

\* a request that completed after a thrown network error, and one that
\* completed after a success
C4_Witness ==
    \E r \in Invocations :
        /\ Appending(r)
        /\ pc[r] = "done"
        /\ Len(calls[r]) >= 3
        /\ \E i \in DOMAIN calls[r] : calls[r][i].status = 0
        /\ \E i \in DOMAIN calls[r] : calls[r][i].status = 500

\* the signature header is absent or is not the signature of the raw body
\* under the configured secret
BadSignature(r) ==
    /\ env["LINE_CHANNEL_SECRET"] # NoValue
    /\ ~ValidSignature(r)

Unauthorized == Response(401, [ok |-> FALSE, error |-> "Invalid signature"])

\* C5: with the shared secret configured, for a POST whose signature header
\* is absent, or differs in length or in bytes from the signature of the raw
\* body, the verifier returns false (it does not throw), the request is
\* answered 401 whatever its body is (malformed JSON included), and no
\* fetch or write is made; a header equal to the signature is accepted by
\* the verifier and the request is not answered 401.
C5_BadSignatureIsUnauthorized ==
    \A r \in Invocations :
        /\ Posted(r) /\ BadSignature(r) =>
              /\ verifyLineSignature(req[r].body, req[r].header,
                                     env["LINE_CHANNEL_SECRET"]) = "false"
              /\ pc[r] \in {"body", "done"}
              /\ calls[r] = <<>>
              /\ pc[r] = "done" => resp[r] = <<Unauthorized>>
        /\ Posted(r) /\ ValidSignature(r) =>
              /\ verifyLineSignature(req[r].body, req[r].header,
                                     env["LINE_CHANNEL_SECRET"]) = "true"
              /\ \A i \in DOMAIN resp[r] : resp[r][i].status # 401

\* a malformed body under a header longer than a signature, answered 401
C5_Witness ==
    \E r \in Invocations :
        /\ Posted(r)
        /\ ~Parseable(r)
        /\ req[r].header.present
        /\ Len(req[r].header.value) > Len(HmacBase64(req[r].body, Secret))
        /\ Answered(r, Unauthorized)

InvalidJson == Response(400, [ok |-> FALSE, error |-> "Invalid JSON"])

\* C6: a POST with a valid signature whose body is not parseable JSON is
\* answered 400 and makes no fetch or write; no other request is answered
\* 400.
C6_MalformedJsonIsBadRequest ==
    \A r \in Invocations :
        /\ Posted(r) /\ ValidSignature(r) /\ ~Parseable(r) =>
              /\ pc[r] \in {"body", "done"}
              /\ calls[r] = <<>>
              /\ pc[r] = "done" => resp[r] = <<InvalidJson>>
        /\ \A i \in DOMAIN resp[r] :
              resp[r][i].status = 400 =>
                  Posted(r) /\ ValidSignature(r) /\ ~Parseable(r)

C6_Witness ==
    \E r \in Invocations :
        Posted(r) /\ ValidSignature(r) /\ ~Parseable(r) /\ Answered(r, InvalidJson)

\* C7: a POST with a valid signature and parseable JSON that holds no
\* qualifying text message is answered 200 with ok:true and appended 0, and
\* makes no fetch and no write (also when the store credential is not set).
C7_NoTextIsNoOp ==
    \A r \in Invocations :
        Posted(r) /\ ValidSignature(r) /\ Parseable(r) /\ NumQualifying(r) = 0 =>
            /\ pc[r] \in {"body", "done"}
            /\ calls[r] = <<>>
            /\ pc[r] = "done" =>
                  resp[r] = <<Response(200, [ok |-> TRUE, appended |-> 0])>>

\* a payload whose only text messages are whitespace or lack a text,
\* answered as a no-op
C7_Witness ==
    \E r \in Invocations :
        /\ Posted(r) /\ ValidSignature(r) /\ Parseable(r)
        /\ NumQualifying(r) = 0
        /\ Len(EventsOf(req[r].body.payload)) = 2
        /\ \A i \in 1..2 : IsTextMessageEvent(EventsOf(req[r].body.payload)[i])
        /\ Answered(r, Response(200, [ok |-> TRUE, appended |-> 0]))

\* C8: a GET is answered at once with status 200 and the body
\* {ok:true, name:'note-push'}, whatever its body, its signature header and
\* the configuration, and makes no fetch and no write.
C8_HealthCheck ==
    \A r \in Invocations :
        pc[r] # "idle" /\ req[r].method = "GET" =>
            /\ Answered(r, Response(200, [ok |-> TRUE, name |-> "note-push"]))
            /\ calls[r] = <<>>
            /\ loc[r] = NoLoc

\* a GET with a malformed body, no signature and no secret configured
C8_Witness ==
    \E r \in Invocations :
        /\ pc[r] = "done"
        /\ req[r].method = "GET"
        /\ ~Parseable(r)
        /\ ~req[r].header.present
        /\ env["LINE_CHANNEL_SECRET"] = NoValue

\* the writes of request r, each with the fetch of its attempt
WriteAfterFetch(r) ==
    { i \in DOMAIN calls[r] :
        /\ calls[r][i].op = "PUT"
        /\ i > 1
        /\ calls[r][i - 1].op = "GET"
        /\ calls[r][i - 1].attempt = calls[r][i].attempt }

\* the header of a new document: '# <date>', then an empty line
DateHeader(r) == <<"#", " ">> \o loc[r].t.date \o <<LF>> \o <<LF>>

\* C9: a write that follows a fetch reporting that the document does not
\* exist carries no version token, and its content is the date header of
\* the request's date ('# <date>' and an empty line) followed by the new
\* block; a write carries a version token if and only if the fetch of its
\* attempt reported that the document exists.
C9_CreateWithoutToken ==
    \A r \in Invocations : \A i \in WriteAfterFetch(r) :
        LET put == calls[r][i]
            get == calls[r][i - 1]
        IN  /\ get.status = 404 =>
                  /\ ~put.hasSha
                  /\ put.sha = NoSha
                  /\ put.content = DateHeader(r) \o loc[r].entry
            /\ put.hasSha <=> get.status = 200

\* a create that failed, and in a later attempt of the same request, after
\* another writer created the document, an update that the store accepted
C9_Witness ==
    \E r \in Invocations : \E i, j \in WriteAfterFetch(r) :
        /\ i < j
        /\ calls[r][i - 1].status = 404
        /\ ~calls[r][i].hasSha
        /\ calls[r][j - 1].status = 200
        /\ calls[r][j].hasSha
        /\ calls[r][j].status = 200

RECURSIVE StripNewlines(_)
\* s without its trailing newlines
StripNewlines(s) ==
    IF s # <<>> /\ s[Len(s)] = LF
    THEN StripNewlines(SubSeq(s, 1, Len(s) - 1)) ELSE s

\* s forced to end with exactly one trailing newline
ExactlyOneNewline(s) == StripNewlines(s) \o <<LF>>

\* s with a newline added unless it ends with one already
AtLeastOneNewline(s) ==
    IF s # <<>> /\ s[Len(s)] = LF THEN s ELSE s \o <<LF>>

\* C10 as stated: a write that follows a fetch reporting the document with
\* content C carries C forced to end with exactly one trailing newline,
\* then the new block, and the version token of that fetch.
C10_ExactlyOneNewline ==
    \A r \in Invocations : \A i \in WriteAfterFetch(r) :
        LET put == calls[r][i]
            get == calls[r][i - 1]
        IN  get.status = 200 =>
                /\ put.content = ExactlyOneNewline(get.content) \o loc[r].entry
                /\ put.hasSha
                /\ put.sha = get.sha

\* C10 as amended: a write that follows a fetch reporting the document with
\* content C carries C, with one newline added when C is empty or does not
\* end with a newline (a C that ends with newlines is kept as it is, however
\* many they are), then the new block, and the version token of that fetch.
C10_EndsWithNewline ==
    \A r \in Invocations : \A i \in WriteAfterFetch(r) :
        LET put == calls[r][i]
            get == calls[r][i - 1]
        IN  get.status = 200 =>
                /\ put.content = AtLeastOneNewline(get.content) \o loc[r].entry
                /\ put.hasSha
                /\ put.sha = get.sha

\* an accepted update of a document whose content ends with two newlines
C10_Witness ==
    \E r \in Invocations : \E i \in WriteAfterFetch(r) :
        /\ calls[r][i - 1].status = 200
        /\ calls[r][i].status = 200
        /\ calls[r][i - 1].content = <<"x", LF, LF>>

RECURSIVE QualifyingTexts(_)
\* the texts of the qualifying events, in the order of the events
QualifyingTexts(events) ==
    IF events = <<>> THEN <<>>
    ELSE IF Qualifying(Head(events))
         THEN <<Head(events).message.text>> \o QualifyingTexts(Tail(events))
         ELSE QualifyingTexts(Tail(events))

RECURSIVE NormalizeLineBreaks(_)
\* text with every CRLF pair and every other CR turned into one LF
NormalizeLineBreaks(text) ==
    IF text = <<>> THEN <<>>
    ELSE IF Head(text) = CR /\ Len(text) >= 2 /\ text[2] = LF
         THEN <<LF>> \o NormalizeLineBreaks(SubSeq(text, 3, Len(text)))
    ELSE IF Head(text) = CR
         THEN <<LF>> \o NormalizeLineBreaks(Tail(text))
    ELSE <<Head(text)>> \o NormalizeLineBreaks(Tail(text))

\* '- HH:MM <text>'
RenderedLine(t, text) ==
    <<"-", " ">> \o t.HH \o <<":">> \o t.MM \o <<" ">>
        \o NormalizeLineBreaks(text)

RECURSIVE LinesInOrder(_, _)
\* the texts rendered one after the other, each followed by one LF
LinesInOrder(t, texts) ==
    IF texts = <<>> THEN <<>>
    ELSE RenderedLine(t, Head(texts)) \o <<LF>> \o LinesInOrder(t, Tail(texts))

\* the request has entered the append loop
InLoop(r) == loc[r].attempt >= 1

\* the texts of the messages the handler extracted
ExtractedTexts(r) ==
    [i \in 1..Len(loc[r].textMessages) |-> loc[r].textMessages[i].text]

\* C11: the messages the handler extracts are exactly the events of type
\* 'message' whose message has type 'text' and a text that is not empty
\* after trimming, in the order of the events; the lines of the block
\* follow that order; and the appended count the request reports is the
\* number of those events.
C11_ExtractionKeepsOrder ==
    \A r \in Invocations :
        LET q == QualifyingTexts(EventsOf(req[r].body.payload))
        IN  /\ InLoop(r) =>
                  /\ ExtractedTexts(r) = q
                  /\ loc[r].entry = LinesInOrder(loc[r].t, q)
            /\ pc[r] = "done" =>
                  /\ Len(resp[r]) = 1
                  /\ resp[r][1].body.ok
                  /\ resp[r][1].body.appended = Len(q)

\* two qualifying texts around an image message that has a text: the
\* request ended reporting 2 appended
C11_Witness ==
    \E r \in Invocations :
        /\ EventsOf(req[r].body.payload) =
              <<TextEvent(<<"d", LF>>), CaptionedImage, TextEvent(<<"a">>)>>
        /\ ExtractedTexts(r) = << <<"d", LF>>, <<"a">> >>
        /\ Answered(r, Response(200, [ok |-> TRUE, appended |-> 2,
                                      path |-> loc[r].path]))

\* the block ends with one newline and no more
SingleTrailingNewline(s) ==
    /\ s # <<>>
    /\ s[Len(s)] = LF
    /\ Len(s) >= 2 => s[Len(s) - 1] # LF

\* the block of request r is its messages rendered in order, free of
\* carriage returns, under the time the request was received at
RenderedBlock(r) ==
    /\ loc[r].textMessages # <<>>
    /\ loc[r].entry = LinesInOrder(formatTokyoParts(clock), ExtractedTexts(r))
    /\ \A k \in DOMAIN loc[r].entry : loc[r].entry[k] # CR

\* C12 as stated: the block is the messages rendered as '- HH:MM <text>'
\* with every CRLF and lone CR replaced by LF, joined by LF, all under the
\* same HH:MM, and it ends with exactly one trailing newline.
C12_SingleTrailingNewline ==
    \A r \in Invocations :
        InLoop(r) => RenderedBlock(r) /\ SingleTrailingNewline(loc[r].entry)

\* the text ends with a line break
EndsWithLineBreak(text) == text # <<>> /\ text[Len(text)] \in {CR, LF}

\* C12 as amended: the block is the messages rendered as '- HH:MM <text>'
\* with every CRLF and lone CR replaced by LF, all under the same HH:MM,
\* each followed by one LF; the block ends with exactly one trailing
\* newline unless the text of the last message itself ends with a line
\* break, which is kept in front of the final LF.
C12_BlockIsLinesPlusNewline ==
    \A r \in Invocations :
        InLoop(r) =>
            /\ RenderedBlock(r)
            /\ LET texts == ExtractedTexts(r)
               IN  SingleTrailingNewline(loc[r].entry)
                      <=> ~EndsWithLineBreak(texts[Len(texts)])

\* two messages received at minute 01, the first with a CRLF inside, the
\* second ending with a carriage return: the block written ends with two
\* newlines
C12_Witness ==
    \E r \in Invocations :
        /\ pc[r] = "done"
        /\ ExtractedTexts(r) = << <<"b", CR, LF, "c">>, <<CR, "e", CR>> >>
        /\ Len(Puts(r)) = 1
        /\ EndsWith(Puts(r)[1].content,
                    <<"-", " ", "0", "0", ":", "0", "1", " ", "b", LF, "c", LF,
                      "-", " ", "0", "0", ":", "0", "1", " ", LF, "e", LF, LF>>)

\* the positions in the history of request r of the writes the store accepted
SuccessfulWrites(r) ==
    { i \in DOMAIN calls[r] :
        calls[r][i].op = "PUT" /\ calls[r][i].status = 200 }

\* the success result of request r
Appended(r) ==
    Response(200, [ok |-> TRUE, appended |-> NumQualifying(r),
                   path |-> loc[r].path])

\* C13: when a write of a request succeeds, the request has stopped: that
\* write is its last store operation, and the request has reported status
\* 200 with ok:true, the appended count and the path.  A request has at
\* most one successful write, and a request that entered the append loop
\* reports ok:true only if one of its writes succeeded.
C13_StopsOnFirstSuccess ==
    \A r \in Invocations :
        /\ Cardinality(SuccessfulWrites(r)) <= 1
        /\ \A i \in SuccessfulWrites(r) :
              /\ i = Len(calls[r])
              /\ Answered(r, Appended(r))
        /\ \A k \in DOMAIN resp[r] :
              InLoop(r) /\ resp[r][k].kind = "response" /\ resp[r][k].body.ok =>
                  SuccessfulWrites(r) # {}

\* a request whose first write was rejected and whose second write was
\* accepted, answered with the success result
C13_Witness ==
    \E r \in Invocations :
        /\ Len(Puts(r)) = 2
        /\ Puts(r)[1].status = 409
        /\ Puts(r)[2].status = 200
        /\ Answered(r, Appended(r))

RECURSIVE SumOf(_)
SumOf(seq) == IF seq = <<>> THEN 0 ELSE Head(seq) + SumOf(Tail(seq))

\* attempt k of request r failed with an error the handler classifies as a
\* conflict
ConflictFailure(r, k) ==
    \E i \in DOMAIN calls[r] :
        /\ calls[r][i].attempt = k
        /\ ~Succeeded(calls[r][i])
        /\ isConflict(Thrown(calls[r][i].error))

\* C14: the k-th wait of a request lasts 150 ms times k and follows the
\* failure of attempt k, which was classified as a conflict and was not the
\* third attempt.  A request has waited once for each attempt before the
\* current one (and once more while it is waiting): not before its first
\* attempt, and not after a success, after a failure that is not a
\* conflict, or after the third attempt, which all end the request.  The
\* waits of a request total at most 450 ms.
C14_BackoffOnlyAfterConflict ==
    \A r \in Invocations :
        /\ \A k \in DOMAIN waits[r] :
              /\ waits[r][k] = 150 * k
              /\ k < 3
              /\ ConflictFailure(r, k)
        /\ ~InLoop(r) => waits[r] = <<>>
        /\ InLoop(r) =>
              Len(waits[r]) =
                  IF pc[r] = "backoff" THEN loc[r].attempt ELSE loc[r].attempt - 1
        /\ pc[r] = "backoff" => ConflictFailure(r, loc[r].attempt)
        /\ \A i \in DOMAIN calls[r] :
              \/ Succeeded(calls[r][i]) /\ calls[r][i].op = "PUT"
              \/ ~Succeeded(calls[r][i]) /\ ~isConflict(Thrown(calls[r][i].error))
              \/ ~Succeeded(calls[r][i]) /\ calls[r][i].attempt = 3
              => /\ pc[r] = "done"
                 /\ i = Len(calls[r])
                 /\ Len(waits[r]) = calls[r][i].attempt - 1
        /\ SumOf(waits[r]) <= 450

\* a request that waited 150 ms and then 300 ms and has ended
C14_Witness ==
    \E r \in Invocations : waits[r] = <<150, 300>> /\ pc[r] = "done"

\* C16: the time parts of a request are those of the instant it was
\* handled at, and the path, the block and the commit message are computed
\* from them; no later step of the request changes any of the four, however
\* many attempts and waits follow and whatever the clock shows by then.
\* Every fetch and every write of the request targets that path, every
\* write appends that block, and the pending write carries that commit
\* message.
C16_ComputedOncePerRequest ==
    /\ [][\A r \in Invocations :
            /\ ~InLoop(r) /\ loc'[r].attempt >= 1 =>
                  loc'[r].t = formatTokyoParts(clock)
            /\ InLoop(r) =>
                  /\ loc'[r].t = loc[r].t
                  /\ loc'[r].path = loc[r].path
                  /\ loc'[r].entry = loc[r].entry
                  /\ loc'[r].commitMsg = loc[r].commitMsg]_vars
    /\ [](\A r \in Invocations :
            InLoop(r) =>
                /\ loc[r].path = buildNotePath(Template, loc[r].t)
                /\ loc[r].entry = LinesInOrder(loc[r].t, ExtractedTexts(r))
                /\ loc[r].commitMsg = CommitMsg(loc[r].t)
                /\ \A i \in DOMAIN calls[r] :
                      /\ calls[r][i].path = loc[r].path
                      /\ calls[r][i].op = "PUT" =>
                            EndsWith(calls[r][i].content, loc[r].entry)
                /\ pc[r] = "put" =>
                      /\ PutRequest(r).message = loc[r].commitMsg
                      /\ EndsWith(Base64Decode(PutRequest(r).content),
                                  loc[r].entry))

\* a request handled at minute 01 of the first day is about to write in its
\* second attempt or a later one, at minute 00 of the second day: its write
\* goes to the first day's document
C16_Witness ==
    \E r \in Invocations :
        /\ pc[r] = "put"
        /\ loc[r].attempt >= 2
        /\ loc[r].t = formatTokyoParts(1)
        /\ clock = 2
        /\ formatTokyoParts(clock).date # loc[r].t.date
        /\ formatTokyoParts(clock).MM # loc[r].t.MM
        /\ loc[r].path # buildNotePath(Template, formatTokyoParts(clock))
        /\ Gets(r)[Len(Gets(r))].path = buildNotePath(Template, formatTokyoParts(1))

\* the error a missing setting makes the handler throw
MissingEnv(name) == Exception(<<"Missing env: ", name>>)

\* C17 as stated: when the webhook secret or the store credential is
\* absent, every POST makes no fetch and no write, is not retried, and
\* ends with a 'Missing' configuration error.
C17_EveryPostFailsMissing ==
    \A r \in Invocations :
        Posted(r) /\ ~ConfigSet =>
            /\ calls[r] = <<>>
            /\ waits[r] = <<>>
            /\ pc[r] \in {"body", "done"}
            /\ pc[r] = "done" =>
                  \/ resp[r] = <<MissingEnv("LINE_CHANNEL_SECRET")>>
                  \/ resp[r] = <<MissingEnv("GITHUB_TOKEN")>>

\* C17 as amended: when the webhook secret is absent, every POST ends with
\* the error 'Missing env: LINE_CHANNEL_SECRET'.  When the secret is set
\* and the store credential is absent, a POST with a valid signature,
\* parseable JSON and at least one qualifying text message ends with the
\* error 'Missing env: GITHUB_TOKEN'; any other POST never reads the
\* credential and is answered 401, 400 or 200 with ok:true and appended 0.
\* In all these cases the request makes no fetch and no write and is not
\* retried.
C17_FailsWhereSettingIsRead ==
    \A r \in Invocations :
        Posted(r) /\ ~ConfigSet =>
            /\ calls[r] = <<>>
            /\ waits[r] = <<>>
            /\ pc[r] \in {"body", "done"}
            /\ pc[r] = "done" =>
                  IF env["LINE_CHANNEL_SECRET"] = NoValue
                    THEN resp[r] = <<MissingEnv("LINE_CHANNEL_SECRET")>>
                  ELSE IF ~ValidSignature(r)
                    THEN resp[r] = <<Unauthorized>>
                  ELSE IF ~Parseable(r)
                    THEN resp[r] = <<InvalidJson>>
                  ELSE IF NumQualifying(r) = 0
                    THEN resp[r] = <<Response(200, [ok |-> TRUE, appended |-> 0])>>
                  ELSE resp[r] = <<MissingEnv("GITHUB_TOKEN")>>

\* with the secret set and the credential absent, a correctly signed POST
\* with a qualifying message has ended with the 'Missing' error
C17_Witness ==
    \E r \in Invocations :
        /\ Posted(r)
        /\ env["LINE_CHANNEL_SECRET"] # NoValue
        /\ env["GITHUB_TOKEN"] = NoValue
        /\ ValidSignature(r)
        /\ Parseable(r)
        /\ NumQualifying(r) >= 1
        /\ Answered(r, MissingEnv("GITHUB_TOKEN"))

\* the document request r appends to, as the store holds it
DocOf(r) == store[loc[r].path].content

\* how many times the block occurs in the content
Occurrences(content, block) ==
    Cardinality({ i \in 1..Len(content) : IsPrefixAt(content, i, block) })

\* request r has ended with the success result
ReportedOk(r) == Answered(r, Appended(r))

\* C15: when two requests run concurrently on one path and no other
\* request touches it, the store failing writes only on its version-token
\* precondition, then once both have ended both have reported ok:true and
\* the document holds the blocks of both, whether the document existed
\* before or not.
C15_RaceResolved ==
    \A a, b \in Invocations :
        /\ a # b
        /\ \A c \in Invocations \ {a, b} : calls[c] = <<>>
        /\ pc[a] = "done"
        /\ pc[b] = "done"
        => /\ ReportedOk(a)
           /\ ReportedOk(b)
           /\ Occurrences(DocOf(a), loc[a].entry) = 1
           /\ Occurrences(DocOf(b), loc[b].entry) = 1

\* C18: in every state, the block of a request that has reported ok:true
\* is in the document, once; and the document holds the block of a request
\* exactly when one of the writes of that request succeeded.
C18_NoLostUpdate ==
    \A r \in Invocations :
        InLoop(r) =>
            /\ ReportedOk(r) => Occurrences(DocOf(r), loc[r].entry) = 1
            /\ Occurrences(DocOf(r), loc[r].entry) = Cardinality(SuccessfulWrites(r))
            /\ Cardinality(SuccessfulWrites(r)) \in {0, 1}

\* all requests have ended, one of them after two rejected writes, and
\* the document holds the block of each of them
C18_Witness ==
    /\ \A r \in Invocations :
          ReportedOk(r) /\ Occurrences(DocOf(r), loc[r].entry) = 1
    /\ \E r \in Invocations : Len(Puts(r)) = 3
    /\ Cardinality(Invocations) >= 3

\* the writes of request r the store rejected
RejectedWrites(r) ==
    { i \in DOMAIN calls[r] :
        calls[r][i].op = "PUT" /\ ~Succeeded(calls[r][i]) }

\* the writes of requests other than r the store accepted, in number
AcceptedFromOthers(r) ==
    Cardinality({ o \in Invocations \ {r} : SuccessfulWrites(o) # {} })

\* C19: a request ends with the failure result only after 3 of its own
\* writes were rejected, which takes 3 accepted writes of other requests;
\* so when at most 3 requests run concurrently on one document and the
\* store fails writes only on its version-token precondition, every
\* request that has ended has reported ok:true.
C19_FailsOnlyWhenExhausted ==
    \A r \in Invocations :
        /\ pc[r] = "done" /\ ~ReportedOk(r) =>
              /\ Cardinality(RejectedWrites(r)) = 3
              /\ AcceptedFromOthers(r) >= 3
        /\ Cardinality(Invocations) <= 3 /\ pc[r] = "done" => ReportedOk(r)

\* C20: no step shortens, rewrites or deletes a document: once a document
\* exists it exists in every later state, and after every step its content
\* begins with the content it had before the step.
C20_AppendOnly ==
    [][\A p \in Paths :
          store[p].exists =>
              /\ store'[p].exists
              /\ Len(store'[p].content) >= Len(store[p].content)
              /\ IsPrefixAt(store'[p].content, 1, store[p].content)]_vars

\* a document that ended with two newlines, to which two requests have
\* appended one after the other: it holds what it held, then the two blocks
C20_Witness ==
    \E a, b \in Invocations :
        /\ a # b
        /\ ReportedOk(a)
        /\ ReportedOk(b)
        /\ Gets(a)[1].content = <<"x", LF, LF>>
        /\ DocOf(a) = <<"x", LF, LF>> \o loc[a].entry \o loc[b].entry

============================================================================
